---- MODULE Spec2Model ----
(***************************************************************************)
(* Model of the AutoRange relay pipeline.                                  *)
(*                                                                         *)
(*   - HubPublisher (src/publisher/src/js/background.js): per-room         *)
(*     identity, token fetch, hub socket, outbound queue, retry alarm.     *)
(*   - ChannelManager (src/unnamed/part_000): the content script's port    *)
(*     to the background script, with its message queue and reconnects.    *)
(*                                                                         *)
(* Strings that the code takes apart (urls) are sequences of one-character *)
(* strings; the null room is the empty sequence.                           *)
(***************************************************************************)
EXTENDS Integers, Sequences, FiniteSets, Bags, TLC

VARIABLES
    \* ---- room extraction (extractRoomFromUrl applied to one url)
    url, extracted,
    \* ---- HubPublisher fields
    ws, queue, retryCount, currentRoom, isConnecting, authErrorBackoff,
    \* ---- relay process environment
    sockets, alarm, publisherIds, getQ, fetches, nextUuid, nextEvent,
    \* ---- history of the relay (what was observed, never read by the code)
    last, epoch, resolved,
    \* ---- bounds of the explored scenario (what the environment may still do)
    budget,
    \* ---- ChannelManager (content script) globals
    port, reconnectAttempts, reconnectTimer, messageQueue,
    \* ---- content script environment and history
    ports, loaded, nextMsg, delivered, discRun, chLast, chBudget

urlVars == <<url, extracted>>
pubVars == <<ws, queue, retryCount, currentRoom, isConnecting, authErrorBackoff>>
envVars == <<sockets, alarm, publisherIds, getQ, fetches, nextUuid, nextEvent>>
hubVars == <<pubVars, envVars, last, epoch, resolved, budget>>
chVars  == <<port, reconnectAttempts, reconnectTimer, messageQueue,
             ports, loaded, nextMsg, delivered, discRun, chLast, chBudget>>
vars    == <<urlVars, hubVars, chVars>>

-----------------------------------------------------------------------------
(* Room extraction                                                         *)

\* s.split(c)[0]: the part of s before the first c (all of s without a c).
RECURSIVE Before(_, _)
Before(s, c) ==
    IF s = <<>> \/ Head(s) = c THEN <<>>
    ELSE <<Head(s)>> \o Before(Tail(s), c)

\* s.replace(/\/$/, ''): one trailing slash removed.
StripTrailingSlash(s) ==
    IF s # <<>> /\ s[Len(s)] = "/" THEN SubSeq(s, 1, Len(s) - 1) ELSE s

\* segments[segments.length - 1] of s.split('/'): the part after the last '/'.
RECURSIVE LastSegment(_)
LastSegment(s) ==
    IF s = <<>> \/ s[Len(s)] = "/" THEN <<>>
    ELSE LastSegment(SubSeq(s, 1, Len(s) - 1)) \o <<s[Len(s)]>>

\* s.trim() === '': nothing but white space.
IsBlank(s) == \A i \in 1..Len(s) : s[i] = " "

Null == <<>>

cleanUrl(u) == StripTrailingSlash(Before(Before(u, "?"), "#"))

extractRoomFromUrl(u) ==
    LET lastSegment == LastSegment(cleanUrl(u))
    IN  IF lastSegment # <<>> /\ ~IsBlank(lastSegment) THEN lastSegment ELSE Null

-----------------------------------------------------------------------------
(* HubPublisher: configuration                                             *)

MAX_RETRIES == 100
INITIAL_BACKOFF_MS == 1000
MAX_BACKOFF_MS == 10000
AUTH_ERROR_BACKOFF_MS == 60000
QUEUE_CAP == 100

Min(a, b) == IF a <= b THEN a ELSE b

RECURSIVE Pow(_, _)
Pow(b, e) == IF e = 0 THEN 1 ELSE b * Pow(b, e - 1)

\* chrome.alarms holds at most one alarm named RETRY_ALARM_NAME.  room and
\* epoch are history: the room scheduleRetry was called for and the number of
\* process restarts at that moment; chrome.alarms stores neither.
NoAlarm == [set |-> FALSE, delay |-> 0, room |-> Null, epoch |-> 0]

\* The publisher's fields together with the two things its methods act on
\* (the alarm and the sockets), as one value that the methods transform.
Pub == [ws |-> ws, retryCount |-> retryCount, currentRoom |-> currentRoom,
        isConnecting |-> isConnecting, authErrorBackoff |-> authErrorBackoff,
        alarm |-> alarm, sockets |-> sockets]

Commit(p) ==
    /\ ws' = p.ws
    /\ retryCount' = p.retryCount
    /\ currentRoom' = p.currentRoom
    /\ isConnecting' = p.isConnecting
    /\ authErrorBackoff' = p.authErrorBackoff
    /\ alarm' = p.alarm
    /\ sockets' = p.sockets

\* new HubPublisher()
Constructed ==
    [ws |-> 0, retryCount |-> 0, currentRoom |-> Null, isConnecting |-> FALSE,
     authErrorBackoff |-> FALSE]

Live(s) == s.readyState \in {"CONNECTING", "OPEN"}

\* this.ws && this.ws.readyState === WebSocket.OPEN
IsOpen(p) == p.ws # 0 /\ p.sockets[p.ws].readyState = "OPEN"

clearRetryAlarm(p) == [p EXCEPT !.alarm = NoAlarm]

\* backoff with a fault: no ceiling.  (Past 2^20 the value only has to be
\* above the ceiling.)
backoff_noCeiling(n) ==
    IF n - 1 <= 20 THEN INITIAL_BACKOFF_MS * Pow(2, n - 1)
    ELSE INITIAL_BACKOFF_MS * Pow(2, 20)

\* Math.min(INITIAL_BACKOFF_MS * Math.pow(2, n - 1), MAX_BACKOFF_MS).  The code
\* computes in floating point, which does not overflow here; past 2^20 the
\* product is above the ceiling, so the minimum is the ceiling.
backoff(n) ==
    IF n - 1 <= 20 THEN Min(INITIAL_BACKOFF_MS * Pow(2, n - 1), MAX_BACKOFF_MS)
    ELSE MAX_BACKOFF_MS

\* scheduleRetry with a fault: the override is ignored, the delay is always
\* the exponential one.
scheduleRetry_noOverride(p, roomId, overrideBackoff) ==
    IF p.retryCount >= MAX_RETRIES THEN clearRetryAlarm(p)
    ELSE [p EXCEPT !.retryCount = @ + 1,
                   !.alarm = [set |-> TRUE, delay |-> backoff(p.retryCount + 1),
                              room |-> roomId, epoch |-> epoch]]

\* scheduleRetry with a fault: retryCount is counted but no alarm is created.
scheduleRetry_noAlarm(p, roomId, overrideBackoff) ==
    IF p.retryCount >= MAX_RETRIES THEN clearRetryAlarm(p)
    ELSE [clearRetryAlarm(p) EXCEPT !.retryCount = @ + 1]

\* overrideBackoff is <<>> for null and <<ms>> for a number.
scheduleRetry(p, roomId, overrideBackoff) ==
    IF p.retryCount >= MAX_RETRIES THEN clearRetryAlarm(p)
    ELSE LET n == p.retryCount + 1
             delay == IF overrideBackoff # <<>> THEN overrideBackoff[1]
                      ELSE backoff(n)
         IN  [p EXCEPT !.retryCount = n,
                       !.alarm = [set |-> TRUE, delay |-> delay,
                                  room |-> roomId, epoch |-> epoch]]

\* ws.onclose = null; ws.close()
CloseCall(s) ==
    [s EXCEPT !.onclose = FALSE,
              !.readyState = IF Live(s) THEN "CLOSING" ELSE @]

\* disconnect with a fault: the socket is closed with its close handler
\* still attached.
disconnect_keepsHandler(p) ==
    LET q == clearRetryAlarm(p)
    IN  [q EXCEPT !.sockets = IF p.ws # 0
                               THEN [p.sockets EXCEPT ![p.ws].readyState =
                                        IF Live(p.sockets[p.ws]) THEN "CLOSING" ELSE @]
                               ELSE p.sockets,
                  !.ws = 0,
                  !.isConnecting = FALSE]

disconnect(p) ==
    LET q == clearRetryAlarm(p)
    IN  [q EXCEPT !.sockets = IF p.ws # 0
                               THEN [p.sockets EXCEPT ![p.ws] = CloseCall(@)]
                               ELSE p.sockets,
                  !.ws = 0,
                  !.isConnecting = FALSE]

\* The part of connect(roomId) that runs before its first await.  started
\* says whether it went on to call getPublisherId.
connect(p, roomId) ==
    IF roomId = Null THEN [p |-> p, started |-> FALSE]
    ELSE IF p.currentRoom = roomId /\ IsOpen(p) THEN [p |-> p, started |-> FALSE]
    ELSE LET q == IF p.currentRoom # roomId
                  THEN [disconnect(p) EXCEPT !.currentRoom = roomId,
                                             !.retryCount = 0,
                                             !.authErrorBackoff = FALSE]
                  ELSE p
         IN  IF q.isConnecting THEN [p |-> q, started |-> FALSE]
             ELSE IF q.ws # 0 /\ Live(q.sockets[q.ws])
                  THEN [p |-> q, started |-> FALSE]
             ELSE [p |-> [clearRetryAlarm(q) EXCEPT !.isConnecting = TRUE],
                   started |-> TRUE]

\* queued is history: the message went through the queue.
enqueue(q, message) ==
    LET pushed == Append(q, [message EXCEPT !.queued = TRUE])
    IN  IF Len(pushed) > QUEUE_CAP THEN Tail(pushed) ELSE pushed

\* publish(message).  sendThrows: ws.send throws.  A message that
\* JSON.stringify rejects leaves through the outer catch.
publish(p, q, message, sendThrows) ==
    IF ~message.ser THEN [p |-> p, queue |-> q]
    ELSE IF IsOpen(p)
         THEN IF sendThrows THEN [p |-> p, queue |-> enqueue(q, message)]
              ELSE [p |-> [p EXCEPT !.sockets[p.ws].written = Append(@, message)],
                    queue |-> q]
    ELSE [p |-> p, queue |-> enqueue(q, message)]

\* flushQueue().  fail = 0: no ws.send throws; fail = i: the i-th one does,
\* the message is put back at the head and the loop ends.
flushQueue(p, q, fail) ==
    IF ~IsOpen(p) THEN [p |-> p, queue |-> q]
    ELSE LET n == IF fail = 0 THEN Len(q) ELSE fail - 1
         IN  [p |-> [p EXCEPT !.sockets[p.ws].written = @ \o SubSeq(q, 1, n)],
              queue |-> SubSeq(q, n + 1, Len(q))]

-----------------------------------------------------------------------------
(* The relay process: events, callbacks, timers                            *)

\* "https://host/games/abc123/"
UrlSlash ==
    <<"h","t","t","p","s",":","/","/","h","o","s","t","/",
      "g","a","m","e","s","/","a","b","c","1","2","3","/">>
\* "https://host/games/abc123?x=1#y"
UrlQuery ==
    <<"h","t","t","p","s",":","/","/","h","o","s","t","/",
      "g","a","m","e","s","/","a","b","c","1","2","3","?","x","=","1","#","y">>
\* "https://host/"
UrlRoot == <<"h","t","t","p","s",":","/","/","h","o","s","t","/">>
\* "https://host/games/t2"
UrlOther ==
    <<"h","t","t","p","s",":","/","/","h","o","s","t","/",
      "g","a","m","e","s","/","t","2">>
\* "https://host/games//"
UrlEmptySegment ==
    <<"h","t","t","p","s",":","/","/","h","o","s","t","/",
      "g","a","m","e","s","/","/">>
\* handData.url missing
NoUrl == <<>>

EventUrls == {UrlSlash, UrlQuery, UrlOther, UrlEmptySegment, NoUrl}
Rooms == {extractRoomFromUrl(u) : u \in EventUrls} \ {Null}

\* What the last handler was and what it met: op, the room it ran for, rc
\* (retryCount before it, or the identity it resolved), ev (the event it
\* published), alarm (the alarm that fired).  run is the delay of the latest
\* retry scheduled without an override since the last socket open or room
\* switch (0 for none), and prev is what run was before the handler.
NoLast == [op |-> "none", room |-> Null, rc |-> 0, ev |-> 0, alarm |-> NoAlarm,
           prev |-> 0, run |-> 0]

Carry == [NoLast EXCEPT !.run = last.run]

\* A handler that ends in scheduleRetry(room) without an override.
Retried(op, room) ==
    last' = [Carry EXCEPT !.op = op, !.room = room, !.rc = retryCount,
                          !.prev = last.run,
                          !.run = IF retryCount' > retryCount THEN alarm'.delay ELSE @]

HubInit(b) ==
    /\ ws = Constructed.ws
    /\ queue = <<>>
    /\ retryCount = Constructed.retryCount
    /\ currentRoom = Constructed.currentRoom
    /\ isConnecting = Constructed.isConnecting
    /\ authErrorBackoff = Constructed.authErrorBackoff
    /\ sockets = <<>>
    /\ alarm = NoAlarm
    /\ publisherIds = [r \in Rooms |-> 0]
    /\ getQ = <<>>
    /\ fetches = EmptyBag
    /\ nextUuid = 1
    /\ nextEvent = 1
    /\ last = NoLast
    /\ epoch = 0
    /\ resolved = {}
    /\ budget = b

Spend(field) == budget' = [budget EXCEPT ![field] = @ - 1]

\* handleHandData with a fault: neither early return is taken, so an event
\* without a room still goes on to connect and to getPublisherId.
HandData_noEarlyReturn(u, ser) ==
    LET roomId == extractRoomFromUrl(u)
        c == connect(Pub, roomId)
        get(kind) == [kind |-> kind, room |-> roomId, snap |-> publisherIds,
                      ev |-> nextEvent, ser |-> ser]
    IN  /\ budget.events > 0
        /\ ~ser => budget.fails > 0
        /\ budget' = [budget EXCEPT !.events = @ - 1,
                                    !.fails = IF ser THEN @ ELSE @ - 1]
        /\ nextEvent' = nextEvent + 1
        /\ Commit(c.p)
        /\ queue' = queue
        /\ getQ' = getQ \o (IF c.started THEN <<get("connect")>> ELSE <<>>)
                        \o <<get("publish")>>
        /\ last' = [Carry EXCEPT !.op = "event", !.room = roomId, !.rc = retryCount]
        /\ UNCHANGED <<publisherIds, fetches, nextUuid, epoch, resolved, urlVars, chVars>>

\* handleHandData(handData): the event's url is u, ser says whether its
\* payload can be serialized.
HandData(u, ser) ==
    LET roomId == extractRoomFromUrl(u)
        c == connect(Pub, roomId)
        get(kind) == [kind |-> kind, room |-> roomId, snap |-> publisherIds,
                      ev |-> nextEvent, ser |-> ser]
    IN  /\ budget.events > 0
        /\ ~ser => budget.fails > 0
        /\ budget' = [budget EXCEPT !.events = @ - 1,
                                    !.fails = IF ser THEN @ ELSE @ - 1]
        /\ nextEvent' = nextEvent + 1
        /\ last' = [Carry EXCEPT !.op = "event", !.room = roomId, !.rc = retryCount,
                                 !.run = IF roomId # Null /\ roomId # currentRoom
                                         THEN 0 ELSE @]
        /\ IF u = NoUrl \/ roomId = Null
           THEN UNCHANGED <<pubVars, sockets, alarm, getQ>>
           ELSE /\ Commit(c.p)
                /\ queue' = queue
                /\ getQ' = getQ \o (IF c.started THEN <<get("connect")>> ELSE <<>>)
                                \o <<get("publish")>>
        /\ UNCHANGED <<publisherIds, fetches, nextUuid, epoch, resolved, urlVars, chVars>>

\* The callback of chrome.storage.local.get in getPublisherId, for the oldest
\* pending read, followed by what awaited it: connect goes on to fetchHubToken,
\* handleHandData to publishMessage.
GetCallback(sendThrows) ==
    /\ getQ # <<>>
    /\ LET g == Head(getQ)
           known == g.snap[g.room] # 0
           id == IF known THEN g.snap[g.room] ELSE nextUuid
           message == [ev |-> g.ev, room |-> g.room, publisherId |-> id,
                       ser |-> g.ser, target |-> currentRoom, queued |-> FALSE]
           r == publish(Pub, queue, message, sendThrows)
       IN  /\ getQ' = Tail(getQ)
           /\ publisherIds' = IF known THEN publisherIds
                              ELSE [g.snap EXCEPT ![g.room] = id]
           /\ nextUuid' = IF known THEN nextUuid ELSE nextUuid + 1
           /\ last' = [Carry EXCEPT !.op = g.kind, !.room = g.room, !.rc = id,
                                    !.ev = g.ev]
           /\ resolved' = resolved \cup {[room |-> g.room, publisherId |-> id]}
           /\ IF g.kind = "connect"
              THEN /\ fetches' = fetches (+) SetToBag({[room |-> g.room, publisherId |-> id]})
                   /\ ~sendThrows
                   /\ UNCHANGED <<pubVars, sockets, alarm, budget>>
              ELSE /\ Commit(r.p)
                   /\ queue' = r.queue
                   /\ sendThrows => budget.fails > 0 /\ IsOpen(Pub) /\ g.ser
                   /\ IF sendThrows THEN Spend("fails") ELSE UNCHANGED budget
                   /\ UNCHANGED fetches
    /\ UNCHANGED <<nextEvent, epoch, urlVars, chVars>>

Done(f) == fetches' = fetches (-) SetToBag({f})

\* fetchHubToken answers with a token: the socket is created.
TokenOk(f) ==
    /\ BagIn(f, fetches)
    /\ budget.sockets > 0
    /\ Spend("sockets")
    /\ Done(f)
    /\ authErrorBackoff' = FALSE
    /\ sockets' = Append(sockets, [room |-> f.room, readyState |-> "CONNECTING",
                                   onclose |-> TRUE, publisherId |-> f.publisherId,
                                   written |-> <<>>])
    /\ ws' = Len(sockets) + 1
    /\ last' = [Carry EXCEPT !.op = "tokenOk", !.room = f.room, !.rc = retryCount]
    /\ UNCHANGED <<queue, retryCount, currentRoom, isConnecting, alarm,
                   publisherIds, getQ, nextUuid, nextEvent, epoch, resolved, urlVars, chVars>>

\* fetchHubToken answers 401.
Token401(f) ==
    /\ BagIn(f, fetches)
    /\ budget.fails > 0
    /\ Spend("fails")
    /\ Done(f)
    /\ Commit(scheduleRetry([Pub EXCEPT !.isConnecting = FALSE,
                                        !.authErrorBackoff = TRUE],
                            f.room, <<AUTH_ERROR_BACKOFF_MS>>))
    /\ last' = [Carry EXCEPT !.op = "token401", !.room = f.room, !.rc = retryCount]
    /\ UNCHANGED <<queue, publisherIds, getQ, nextUuid, nextEvent, epoch, resolved, urlVars, chVars>>

\* fetchHubToken fails otherwise (another status, or fetch throws).
TokenError(f) ==
    /\ BagIn(f, fetches)
    /\ budget.fails > 0
    /\ Spend("fails")
    /\ Done(f)
    /\ Commit(scheduleRetry([Pub EXCEPT !.isConnecting = FALSE], f.room, <<>>))
    /\ Retried("tokenError", f.room)
    /\ UNCHANGED <<queue, publisherIds, getQ, nextUuid, nextEvent, epoch, resolved, urlVars, chVars>>

\* A token arrives and new WebSocket(wsUrl) throws: the catch of connect.
SocketThrows(f) ==
    /\ BagIn(f, fetches)
    /\ budget.fails > 0
    /\ Spend("fails")
    /\ Done(f)
    /\ Commit(scheduleRetry([Pub EXCEPT !.isConnecting = FALSE,
                                        !.authErrorBackoff = FALSE],
                            f.room, <<>>))
    /\ Retried("socketThrows", f.room)
    /\ UNCHANGED <<queue, publisherIds, getQ, nextUuid, nextEvent, epoch, resolved, urlVars, chVars>>

\* Socket i opens: its onopen handler.
OnOpen(i, fail) ==
    /\ i \in 1..Len(sockets)
    /\ sockets[i].readyState = "CONNECTING"
    /\ LET opened == [Pub EXCEPT !.sockets[i].readyState = "OPEN",
                                 !.isConnecting = FALSE,
                                 !.retryCount = 0]
           r == flushQueue(opened, queue, fail)
       IN  /\ fail \in 0..Len(queue)
           /\ fail > 0 => budget.fails > 0 /\ IsOpen(opened)
           /\ IF fail > 0 THEN Spend("fails") ELSE UNCHANGED budget
           /\ Commit(r.p)
           /\ queue' = r.queue
    /\ last' = [NoLast EXCEPT !.op = "open", !.room = sockets[i].room, !.rc = retryCount]
    /\ UNCHANGED <<publisherIds, getQ, fetches, nextUuid, nextEvent, epoch, resolved, urlVars, chVars>>

\* Socket i closes without close() having been called on it (refused, or
\* dropped by the hub or the network): its onclose handler.  A socket that
\* disconnect() closed has no handler left and stays CLOSING in the model.
OnClose(i) ==
    /\ i \in 1..Len(sockets)
    /\ Live(sockets[i])
    /\ budget.fails > 0
    /\ Spend("fails")
    /\ LET closed == [Pub EXCEPT !.sockets[i].readyState = "CLOSED"]
       IN  Commit(IF sockets[i].onclose
                  THEN scheduleRetry([closed EXCEPT !.isConnecting = FALSE, !.ws = 0],
                                     sockets[i].room, <<>>)
                  ELSE closed)
    /\ Retried("close", sockets[i].room)
    /\ UNCHANGED <<queue, publisherIds, getQ, fetches, nextUuid, nextEvent, epoch, resolved, urlVars, chVars>>

\* chrome.alarms.onAlarm for RETRY_ALARM_NAME; the alarm is gone once fired.
OnAlarm ==
    /\ alarm.set
    /\ LET fired == clearRetryAlarm(Pub)
           c == connect(fired, currentRoom)
       IN  /\ Commit(IF currentRoom # Null THEN c.p ELSE fired)
           /\ getQ' = IF currentRoom # Null /\ c.started
                      THEN Append(getQ, [kind |-> "connect", room |-> currentRoom,
                                         snap |-> publisherIds, ev |-> 0, ser |-> TRUE])
                      ELSE getQ
    /\ last' = [Carry EXCEPT !.op = "alarm", !.room = currentRoom, !.rc = retryCount,
                              !.alarm = alarm]
    /\ UNCHANGED <<queue, publisherIds, fetches, nextUuid, nextEvent, epoch,
                   resolved, budget, urlVars, chVars>>

\* The service worker is suspended and started again: the publisher is
\* constructed anew, pending callbacks and sockets are gone; chrome.alarms and
\* chrome.storage keep what they hold.
Restart ==
    /\ budget.restarts > 0
    /\ Spend("restarts")
    /\ ws' = Constructed.ws
    /\ queue' = <<>>
    /\ retryCount' = Constructed.retryCount
    /\ currentRoom' = Constructed.currentRoom
    /\ isConnecting' = Constructed.isConnecting
    /\ authErrorBackoff' = Constructed.authErrorBackoff
    /\ sockets' = [i \in 1..Len(sockets) |->
                      [sockets[i] EXCEPT !.readyState = "CLOSED", !.onclose = FALSE]]
    /\ getQ' = <<>>
    /\ fetches' = EmptyBag
    /\ epoch' = epoch + 1
    /\ last' = [Carry EXCEPT !.op = "restart", !.rc = retryCount]
    /\ UNCHANGED <<alarm, publisherIds, nextUuid, nextEvent, resolved, urlVars, chVars>>

HubNext ==
    \/ \E u \in EventUrls, ser \in BOOLEAN : HandData(u, ser)
    \/ \E sendThrows \in BOOLEAN : GetCallback(sendThrows)
    \/ \E f \in BagToSet(fetches) : TokenOk(f)
    \/ \E f \in BagToSet(fetches) : Token401(f)
    \/ \E f \in BagToSet(fetches) : TokenError(f)
    \/ \E f \in BagToSet(fetches) : SocketThrows(f)
    \/ \E i \in 1..Len(sockets), fail \in 0..Len(queue) : OnOpen(i, fail)
    \/ \E i \in 1..Len(sockets) : OnClose(i)
    \/ OnAlarm

-----------------------------------------------------------------------------
(* ChannelManager: the content script's port to the background script      *)

RECONNECT_INTERVAL_MS == 2000
MAX_RECONNECT_ATTEMPTS == 50
MESSAGE_QUEUE_CAP == 20
RECONNECT_CEILING_MS == 30000

NoTimer == [set |-> FALSE, delay4 |-> 0]

\* reconnectDelay4 with a fault: the delay shrinks by the factor 1.5.
reconnectDelay4_shrinking(n) ==
    IF n - 1 <= 6
    THEN (4 * RECONNECT_INTERVAL_MS * Pow(2, n - 1)) \div Pow(3, n - 1)
    ELSE 0

\* Math.min(RECONNECT_INTERVAL_MS * Math.pow(1.5, n - 1), 30000), in quarters
\* of a millisecond so that the value is an integer: 2000 * 1.5^k is a multiple
\* of 1/4 up to k = 6, and from k = 7 on it is above the ceiling.
reconnectDelay4(n) ==
    IF n - 1 <= 6
    THEN Min((4 * RECONNECT_INTERVAL_MS * Pow(3, n - 1)) \div Pow(2, n - 1),
             4 * RECONNECT_CEILING_MS)
    ELSE 4 * RECONNECT_CEILING_MS

\* The globals of the content script together with what its functions act on.
Ch == [port |-> port, reconnectAttempts |-> reconnectAttempts,
       reconnectTimer |-> reconnectTimer, messageQueue |-> messageQueue,
       ports |-> ports, delivered |-> delivered]

ChCommit(c) ==
    /\ port' = c.port
    /\ reconnectAttempts' = c.reconnectAttempts
    /\ reconnectTimer' = c.reconnectTimer
    /\ messageQueue' = c.messageQueue
    /\ ports' = c.ports
    /\ delivered' = c.delivered

\* scheduleReconnect with a fault: no ceiling on the attempts.
scheduleReconnect_noCeiling(c) ==
    IF c.reconnectTimer.set THEN c
    ELSE LET n == c.reconnectAttempts + 1
         IN  [c EXCEPT !.reconnectAttempts = n,
                       !.reconnectTimer = [set |-> TRUE, delay4 |-> reconnectDelay4(n)]]

scheduleReconnect(c) ==
    IF c.reconnectTimer.set THEN c
    ELSE IF c.reconnectAttempts >= MAX_RECONNECT_ATTEMPTS THEN c
    ELSE LET n == c.reconnectAttempts + 1
         IN  [c EXCEPT !.reconnectAttempts = n,
                       !.reconnectTimer = [set |-> TRUE, delay4 |-> reconnectDelay4(n)]]

\* enqueueMessage with a fault: on overflow the newest message is dropped
\* instead of the oldest.
enqueueMessage_dropNewest(q, msg) ==
    LET pushed == Append(q, msg)
    IN  IF Len(pushed) > MESSAGE_QUEUE_CAP
        THEN SubSeq(pushed, 1, MESSAGE_QUEUE_CAP) ELSE pushed

enqueueMessage(q, msg) ==
    LET pushed == Append(q, msg)
    IN  IF Len(pushed) > MESSAGE_QUEUE_CAP THEN Tail(pushed) ELSE pushed

\* flushMessageQueue with a fault: messages are sent from the queue without
\* being taken out of it.
flushMessageQueue_keepsSent(c, fail) ==
    IF c.port = 0 THEN c
    ELSE LET q == c.messageQueue
             n == IF fail = 0 THEN Len(q) ELSE fail - 1
         IN  [c EXCEPT !.delivered = @ \o SubSeq(q, 1, n)]

\* flushMessageQueue with a fault: the message whose transmit failed is not
\* put back.
flushMessageQueue_dropsFailed(c, fail) ==
    IF c.port = 0 THEN c
    ELSE LET q == c.messageQueue
             n == IF fail = 0 THEN Len(q) ELSE fail - 1
         IN  [c EXCEPT !.delivered = @ \o SubSeq(q, 1, n),
                       !.messageQueue = IF fail = 0 THEN <<>>
                                        ELSE SubSeq(q, n + 2, Len(q))]

\* flushMessageQueue().  fail = 0: no postMessage throws; fail = i: the i-th
\* one does, the message is put back at the head and the loop ends.
flushMessageQueue(c, fail) ==
    IF c.port = 0 THEN c
    ELSE LET q == c.messageQueue
             n == IF fail = 0 THEN Len(q) ELSE fail - 1
         IN  [c EXCEPT !.delivered = @ \o SubSeq(q, 1, n),
                       !.messageQueue = SubSeq(q, n + 1, Len(q))]

\* connectPort with a fault: success does not reset reconnectAttempts.
connectPort_keepsAttempts(c, outcome, fail) ==
    IF outcome = "invalid" THEN c
    ELSE IF outcome = "throws" THEN [c EXCEPT !.port = 0]
    ELSE flushMessageQueue(
             [c EXCEPT !.ports = Append(@, [connected |-> TRUE]),
                       !.port = Len(c.ports) + 1,
                       !.reconnectTimer = NoTimer],
             fail)

\* connectPort().  outcome: "invalid" (no chrome.runtime.id), "throws"
\* (chrome.runtime.connect throws) or "ok".
connectPort(c, outcome, fail) ==
    IF outcome = "invalid" THEN c
    ELSE IF outcome = "throws" THEN [c EXCEPT !.port = 0]
    ELSE flushMessageQueue(
             [c EXCEPT !.ports = Append(@, [connected |-> TRUE]),
                       !.port = Len(c.ports) + 1,
                       !.reconnectAttempts = 0,
                       !.reconnectTimer = NoTimer],
             fail)

\* sendPortMessage with a fault: the message is queued without a reconnect
\* being scheduled.
sendPortMessage_noSchedule(c, msg, throws) ==
    IF c.port # 0 /\ ~throws THEN [c EXCEPT !.delivered = Append(@, msg)]
    ELSE [c EXCEPT !.port = 0, !.messageQueue = enqueueMessage(@, msg)]

\* What sendPortMessage returns: true from inside the try, false at the end.
sendPortMessageReturns(c, throws) == c.port # 0 /\ ~throws

\* sendPortMessage(msg).  throws: port.postMessage throws.
sendPortMessage(c, msg, throws) ==
    IF c.port # 0 /\ ~throws THEN [c EXCEPT !.delivered = Append(@, msg)]
    ELSE LET queued == [c EXCEPT !.port = 0,
                                 !.messageQueue = enqueueMessage(@, msg)]
         IN  IF ~queued.reconnectTimer.set THEN scheduleReconnect(queued)
             ELSE queued

\* What the last function run was and what it met: op, ret (what it
\* returned), msg (the message sent, or the port that was disconnected), att,
\* timer and port (reconnectAttempts, reconnectTimer and port before it).  run is the delay of the latest reconnect
\* scheduled since the last successful connectPort (0 for none), and prev is
\* what run was before the function ran.
NoChLast == [op |-> "none", ret |-> FALSE, msg |-> 0, att |-> 0, timer |-> NoTimer,
             port |-> 0, prev |-> 0, run |-> 0]

\* connected: connectPort was called and succeeded.
ChStep(op, ret, msg, connected) ==
    chLast' = [op |-> op, ret |-> ret, msg |-> msg,
               att |-> reconnectAttempts, timer |-> reconnectTimer, port |-> port,
               prev |-> chLast.run,
               run |-> IF reconnectAttempts' > reconnectAttempts
                       THEN reconnectTimer'.delay4
                       ELSE IF connected THEN 0 ELSE chLast.run]

ChInit(b) ==
    /\ port = 0
    /\ reconnectAttempts = 0
    /\ reconnectTimer = NoTimer
    /\ messageQueue = <<>>
    /\ ports = <<>>
    /\ loaded = FALSE
    /\ nextMsg = 1
    /\ delivered = <<>>
    /\ discRun = 0
    /\ chLast = NoChLast
    /\ chBudget = b

ChIdle == ChInit([sends |-> 0, fails |-> 0, ports |-> 0]) 

Outcomes == {"ok", "invalid", "throws"}

\* What a call of connectPort may meet, and what it costs the scenario.
ConnectEnv(outcome, fail, q) ==
    /\ outcome = "ok" => chBudget.ports > 0
    /\ outcome # "ok" => chBudget.fails > 0 /\ fail = 0
    /\ fail \in 0..Len(q)
    /\ fail > 0 => chBudget.fails > 1 \/ (outcome = "ok" /\ chBudget.fails > 0)
    /\ chBudget' = [chBudget EXCEPT
                       !.ports = IF outcome = "ok" THEN @ - 1 ELSE @,
                       !.fails = IF outcome # "ok" \/ fail > 0 THEN @ - 1 ELSE @]

\* "Initialize port connection on script load": connectPort().
ScriptLoad(outcome, fail) ==
    /\ ~loaded
    /\ loaded' = TRUE
    /\ ConnectEnv(outcome, fail, messageQueue)
    /\ ChCommit(connectPort(Ch, outcome, fail))
    /\ discRun' = 0
    /\ ChStep("load", outcome = "ok", 0, outcome = "ok")
    /\ UNCHANGED <<nextMsg, urlVars, hubVars>>

\* The callback of setTimeout in scheduleReconnect.
TimerFires(outcome, fail) ==
    /\ loaded
    /\ reconnectTimer.set
    /\ ConnectEnv(outcome, fail, messageQueue)
    /\ ChCommit(connectPort([Ch EXCEPT !.reconnectTimer = NoTimer], outcome, fail))
    /\ discRun' = IF outcome = "ok" THEN 0 ELSE discRun
    /\ ChStep("timer", outcome = "ok", 0, outcome = "ok")
    /\ UNCHANGED <<loaded, nextMsg, urlVars, hubVars>>

\* The producer calls sendPortMessage with its next message.
Send(throws) ==
    /\ loaded
    /\ chBudget.sends > 0
    /\ throws => port # 0 /\ chBudget.fails > 0
    /\ chBudget' = [chBudget EXCEPT !.sends = @ - 1,
                                    !.fails = IF throws THEN @ - 1 ELSE @]
    /\ ChCommit(sendPortMessage(Ch, nextMsg, throws))
    /\ nextMsg' = nextMsg + 1
    /\ discRun' = IF port = 0 THEN discRun + 1 ELSE 0
    /\ ChStep("send", sendPortMessageReturns(Ch, throws), nextMsg, FALSE)
    /\ UNCHANGED <<loaded, urlVars, hubVars>>

\* Port i is disconnected by the host: its onDisconnect listener.
PortDisconnect(i) ==
    /\ i \in 1..Len(ports)
    /\ ports[i].connected
    /\ ChCommit(scheduleReconnect([Ch EXCEPT !.ports[i].connected = FALSE,
                                             !.port = 0]))
    /\ ChStep("disconnect", port = i, i, FALSE)
    /\ UNCHANGED <<loaded, nextMsg, discRun, chBudget, urlVars, hubVars>>

ChNext ==
    \/ \E o \in Outcomes, fail \in 0..Len(messageQueue) : ScriptLoad(o, fail)
    \/ \E o \in Outcomes, fail \in 0..Len(messageQueue) : TimerFires(o, fail)
    \/ \E throws \in BOOLEAN : Send(throws)
    \/ \E i \in 1..Len(ports) : PortDisconnect(i)

-----------------------------------------------------------------------------
(* Scenarios                                                               *)

MaxEvents == 2
MaxFails == 1
MaxSockets == 2
MaxRestarts == 1
MaxExtraFails == 1

UrlIdle == url = <<>> /\ extracted = [done |-> FALSE, room |-> Null]

HubIdle == HubInit([events |-> 0, fails |-> 0, sockets |-> 0, restarts |-> 0])

\* Two events, so that a room switch can meet a connection in progress.
InitHub ==
    /\ HubInit([events |-> MaxEvents, fails |-> MaxFails, sockets |-> MaxSockets,
                restarts |-> 0])
    /\ UrlIdle
    /\ ChIdle

SpecHub == InitHub /\ [][HubNext]_vars

\* The same with restarts of the service worker.
InitRestart ==
    /\ HubInit([events |-> MaxEvents, fails |-> MaxFails, sockets |-> MaxSockets,
                restarts |-> MaxRestarts])
    /\ UrlIdle
    /\ ChIdle

NextRestart == HubNext \/ Restart

SpecRestart == InitRestart /\ [][NextRestart]_vars

\* One room whose connection keeps failing, as far as the retry budget goes.
InitRetry ==
    /\ HubInit([events |-> 1, fails |-> MAX_RETRIES + MaxExtraFails, sockets |-> 1,
                restarts |-> 0])
    /\ UrlIdle
    /\ ChIdle

SpecRetry == InitRetry /\ [][HubNext]_vars

MaxSends == 4
MaxChFails == 2
MaxPorts == 2
MaxExtraSends == 3
MaxCapFails == 1
MaxCapPorts == 1

\* A few messages over an unreliable channel.
InitChannel ==
    /\ ChInit([sends |-> MaxSends, fails |-> MaxChFails, ports |-> MaxPorts])
    /\ UrlIdle
    /\ HubIdle

SpecChannel == InitChannel /\ [][ChNext]_vars

\* More messages than the queue holds.
InitChannelCap ==
    /\ ChInit([sends |-> MESSAGE_QUEUE_CAP + MaxExtraSends, fails |-> MaxCapFails,
               ports |-> MaxCapPorts])
    /\ UrlIdle
    /\ HubIdle

SpecChannelCap == InitChannelCap /\ [][ChNext]_vars

MaxLongSends == 1
MaxLongFails == 1
MaxLongPorts == 1

\* A host that is reachable at most when the script loads and never again,
\* for as long as it takes to use up the reconnect attempts.
InitChannelLong ==
    /\ ChInit([sends |-> MAX_RECONNECT_ATTEMPTS + MaxLongSends,
               fails |-> MAX_RECONNECT_ATTEMPTS + MaxLongFails,
               ports |-> MaxLongPorts])
    /\ UrlIdle
    /\ HubIdle

NextChannelLong ==
    \/ \E o \in Outcomes, fail \in 0..Len(messageQueue) : ScriptLoad(o, fail)
    \/ \E o \in Outcomes \ {"ok"} : TimerFires(o, 0)
    \/ \E throws \in BOOLEAN : Send(throws)
    \/ \E i \in 1..Len(ports) : PortDisconnect(i)

SpecChannelLong == InitChannelLong /\ [][NextChannelLong]_vars

UrlAlphabet == {"/", "?", "#", " ", "a"}
MaxUrlLen == 4
UrlInputs ==
    UNION {[1..n -> UrlAlphabet] : n \in 0..MaxUrlLen}
        \cup {UrlSlash, UrlQuery, UrlRoot, UrlOther, UrlEmptySegment}

\* extractRoomFromUrl applied to one url.
InitUrl ==
    /\ url \in UrlInputs
    /\ extracted = [done |-> FALSE, room |-> Null]
    /\ HubIdle
    /\ ChIdle

Extract ==
    /\ ~extracted.done
    /\ extracted' = [done |-> TRUE, room |-> extractRoomFromUrl(url)]
    /\ UNCHANGED <<url, hubVars, chVars>>

SpecUrl == InitUrl /\ [][Extract]_vars

\* Nothing fails: every token request is answered with a token, every socket
\* opens and stays open, every send succeeds.  Callbacks that are due are
\* eventually run.
InitCalm ==
    /\ HubInit([events |-> MaxEvents, fails |-> 0, sockets |-> MaxEvents,
                restarts |-> 0])
    /\ UrlIdle
    /\ ChIdle

CalmEvent == \E u \in EventUrls : HandData(u, TRUE)
CalmGet == GetCallback(FALSE)
CalmToken == \E f \in BagToSet(fetches) : TokenOk(f)
CalmOpen == \E i \in 1..Len(sockets) : OnOpen(i, 0)

NextCalm == CalmEvent \/ CalmGet \/ CalmToken \/ CalmOpen

SpecCalm ==
    /\ InitCalm
    /\ [][NextCalm]_vars
    /\ WF_vars(CalmGet) /\ WF_vars(CalmToken) /\ WF_vars(CalmOpen)

MaxE2EFails == 2
MaxE2EPorts == 3

\* The port's onMessage listener in the background script: the next message
\* the content script posted is handed to handleHandData.  The producer's
\* events are on the table abc123.
Relay ==
    /\ nextEvent <= Len(delivered)
    /\ HandData(UrlSlash, TRUE)

\* One event of the producer, sent when the script found no host at load.
\* Nothing fails in the background script.
InitEndToEnd ==
    /\ ChInit([sends |-> 1, fails |-> MaxE2EFails, ports |-> MaxE2EPorts])
    /\ HubInit([events |-> 1, fails |-> 0, sockets |-> 1, restarts |-> 0])
    /\ UrlIdle

NextEndToEnd ==
    \/ \E o \in Outcomes \ {"ok"} : ScriptLoad(o, 0)
    \/ \E o \in Outcomes, fail \in 0..Len(messageQueue) : TimerFires(o, fail)
    \/ Send(FALSE)
    \/ \E i \in 1..Len(ports) : PortDisconnect(i)
    \/ Relay
    \/ CalmGet
    \/ CalmToken
    \/ CalmOpen

SpecEndToEnd == InitEndToEnd /\ [][NextEndToEnd]_vars

MaxDownExtraFails == 1

\* Two tables, and a token service that answers every request with an error
\* other than 401, as far as the retry budget goes and a little beyond.
InitTokenDown ==
    /\ HubInit([events |-> 2, fails |-> MAX_RETRIES + MaxDownExtraFails,
                sockets |-> 0, restarts |-> 0])
    /\ UrlIdle
    /\ ChIdle

NextTokenDown ==
    \/ \E u \in {UrlSlash, UrlOther} : HandData(u, TRUE)
    \/ GetCallback(FALSE)
    \/ \E f \in BagToSet(fetches) : TokenError(f)
    \/ OnAlarm

SpecTokenDown == InitTokenDown /\ [][NextTokenDown]_vars

-----------------------------------------------------------------------------
(* Properties                                                              *)

Written(i) == {sockets[i].written[k] : k \in 1..Len(sockets[i].written)}
Queued == {queue[k] : k \in 1..Len(queue)}

\* C1: an envelope enqueued while room A was the target room is never written
\* to a socket opened for a different room.
C1_NoCrossRoomFlush ==
    \A i \in 1..Len(sockets) :
        \A m \in Written(i) : m.queued => m.target = sockets[i].room

\* C2: at most one hub socket is live (CONNECTING or OPEN), sockets the
\* publisher no longer references included.  That the old room's socket is
\* torn down before the new room's is created is the case of two live sockets
\* of different rooms.
C2_AtMostOneLiveSocket ==
    Cardinality({i \in 1..Len(sockets) : Live(sockets[i])}) <= 1

\* C3: after more than MESSAGE_QUEUE_CAP consecutive send() calls made while
\* the channel is disconnected, the queue is exactly the last MESSAGE_QUEUE_CAP
\* messages sent, in the order they were sent.
C3_QueueKeepsLastCap ==
    discRun > MESSAGE_QUEUE_CAP =>
        messageQueue = [k \in 1..MESSAGE_QUEUE_CAP |->
                            nextMsg - 1 - MESSAGE_QUEUE_CAP + k]

C3_Witness ==
    /\ discRun > MESSAGE_QUEUE_CAP
    /\ chLast.op = "send"
    /\ Len(messageQueue) = MESSAGE_QUEUE_CAP

\* C4: a message whose transmit call succeeded, in send or in a flush, is
\* never transmitted again: no message occurs twice among those delivered.
C4_NoDuplicateDelivery ==
    \A i, j \in 1..Len(delivered) : i # j => delivered[i] # delivered[j]

\* A second port has flushed queued messages after the first one was lost.
C4_Witness ==
    /\ Len(ports) >= 2
    /\ chLast.op = "timer" /\ chLast.ret
    /\ Len(delivered) >= 3
    /\ messageQueue = <<>>

\* C5 as stated: whenever the token service answers 401, a retry is scheduled
\* with the delay AUTH_ERROR_BACKOFF_MS, whatever retryCount is.
C5_Always60000 ==
    last.op = "token401" => alarm.set /\ alarm.delay = AUTH_ERROR_BACKOFF_MS

\* C5 amended: whenever the token service answers 401 while retryCount is
\* below MAX_RETRIES, a retry is scheduled with the delay AUTH_ERROR_BACKOFF_MS.
C5_60000WithinBudget ==
    last.op = "token401" /\ last.rc < MAX_RETRIES =>
        alarm.set /\ alarm.delay = AUTH_ERROR_BACKOFF_MS

\* A 401 met well into the exponential schedule.
C5_Witness ==
    /\ last.op = "token401"
    /\ last.rc >= 5 /\ last.rc < MAX_RETRIES
    /\ alarm.set /\ alarm.delay = AUTH_ERROR_BACKOFF_MS

\* C6: handling a 401 leaves retryCount as it was.
C6_401KeepsRetryCount ==
    last.op = "token401" => retryCount = last.rc

\* C7: identity resolutions for the same room return the same UUID, whether or
\* not they overlap, and resolutions for different rooms return different ones.
C7_StableIdentity ==
    \A a, b \in resolved : (a.room = b.room) <=> (a.publisherId = b.publisherId)

\* The final '/'-delimited segment of t: what follows the last '/', or all of
\* t when it holds none.
IsFinalSegment(seg, t) ==
    /\ \A k \in 1..Len(seg) : seg[k] # "/"
    /\ \/ t = seg
       \/ Len(t) > Len(seg) /\ t = SubSeq(t, 1, Len(t) - Len(seg) - 1) \o <<"/">> \o seg

RoomAbc123 == <<"a","b","c","1","2","3">>

\* C8: room extraction gives the final segment of the url without query
\* string, fragment and trailing slash; both abc123 urls give "abc123" and
\* "https://host/" gives no room.
C8_RoomExtraction ==
    extracted.done =>
        /\ extracted.room # Null => IsFinalSegment(extracted.room, cleanUrl(url))
        /\ url = UrlSlash => extracted.room = RoomAbc123
        /\ url = UrlQuery => extracted.room = RoomAbc123
        /\ url = UrlRoot => extracted.room = Null

\* C9: a retry alarm scheduled for room R before a restart of the service
\* worker still invokes connect(R) when it fires after the restart.
C9_AlarmSurvivesRestart ==
    last.op = "alarm" /\ last.alarm.epoch < epoch => last.room = last.alarm.room

DeliveredToItsRoom(e) ==
    \E i \in 1..Len(sockets) :
        sockets[i].room \in {m.room : m \in {w \in Written(i) : w.ev = e}}

PublishedForCurrentRoom(e) ==
    \E m \in Queued : m.ev = e /\ m.room = m.target

\* C10: when nothing fails and due callbacks are run, every envelope passed to
\* publish for the room that is then current is eventually written to the hub
\* socket of its room.
C10_EventuallyWritten ==
    \A e \in 1..MaxEvents : PublishedForCurrentRoom(e) ~> DeliveredToItsRoom(e)

PlainRetryOps == {"tokenError", "socketThrows", "close"}

\* min(1000 * 2^(n-1), 10000), the product taken only where it is below 2^31.
HubDelay(n) == IF n <= 21 THEN Min(1000 * Pow(2, n - 1), 10000) ELSE 10000

\* C11: a hub retry scheduled without an override waits
\* min(1000 * 2^(retryCount-1), 10000) ms, which is at most 10000 ms and at
\* least the wait of the previous such retry scheduled since the last socket
\* open or room switch.
C11_HubBackoffMonotone ==
    last.op \in PlainRetryOps /\ retryCount > last.rc =>
        /\ alarm.set
        /\ alarm.delay = HubDelay(retryCount)
        /\ alarm.delay <= 10000
        /\ last.prev <= alarm.delay

\* A retry at the ceiling that follows one below it in the same run.
C11_Witness ==
    /\ last.op \in PlainRetryOps /\ retryCount > last.rc
    /\ last.prev = 8000
    /\ alarm.set /\ alarm.delay = 10000

\* reconnectTimer holds 4 * min(2000 * 1.5^(n-1), 30000): either the ceiling,
\* or below it and equal to 4 * 2000 * 3^(n-1) / 2^(n-1).  From n = 8 on the
\* power is above the ceiling.
IsChannelDelay4(d, n) ==
    IF n <= 7 /\ 2000 * Pow(3, n - 1) <= 30000 * Pow(2, n - 1)
    THEN d * Pow(2, n - 1) = 4 * 2000 * Pow(3, n - 1)
    ELSE d = 4 * 30000

\* C12: a channel reconnect is scheduled with the delay
\* min(2000 * 1.5^(retryCount-1), 30000) ms, which is at most 30000 ms and at
\* least the delay of the previous reconnect scheduled since the last
\* successful connect.
C12_ChannelBackoffMonotone ==
    reconnectAttempts > chLast.att =>
        /\ reconnectTimer.set
        /\ IsChannelDelay4(reconnectTimer.delay4, reconnectAttempts)
        /\ reconnectTimer.delay4 <= 4 * 30000
        /\ chLast.prev <= reconnectTimer.delay4

\* The first reconnect at the ceiling, after one at 2000 * 1.5^6 ms.
C12_Witness ==
    /\ reconnectAttempts = 8 /\ chLast.att = 7
    /\ chLast.prev = 91125
    /\ reconnectTimer.set /\ reconnectTimer.delay4 = 4 * 30000

\* C13: the one event E1 that the producer sends while the channel is
\* disconnected is queued with queue length 1, and once the hub socket has
\* been opened with the identity I1 that connect resolved for the room, what
\* is written on that socket is exactly one envelope, with publisherId I1 and
\* data E1.
C13_EndToEnd ==
    /\ chLast.op = "send" => ~chLast.ret /\ messageQueue = <<chLast.msg>>
    /\ \A i \in 1..Len(sockets) :
           sockets[i].written # <<>> =>
               /\ Len(sockets[i].written) = 1
               /\ delivered = <<sockets[i].written[1].ev>>
               /\ sockets[i].written[1].publisherId = sockets[i].publisherId

\* C14: a callback that creates a socket (the continuation of connect after
\* the token) or schedules a retry (the continuation after a failed token
\* request or a throwing constructor, or a socket's close handler) acts for
\* the room that is current: after a switch to another room none of them acts
\* for the room that was left.
C14_NoStaleRevival ==
    last.op \in {"tokenOk", "token401", "tokenError", "socketThrows", "close"} =>
        last.room = currentRoom

\* C15: a connectPort that fails (no host, or chrome.runtime.connect throws)
\* while reconnectAttempts is below MAX_RECONNECT_ATTEMPTS leaves a reconnect
\* scheduled, with nothing sent in between.
C15_FailedConnectRetried ==
    chLast.op \in {"load", "timer"} /\ ~chLast.ret
        /\ reconnectAttempts < MAX_RECONNECT_ATTEMPTS
    => reconnectTimer.set

\* The envelope of event e is the last write on the publisher's socket, is
\* written only once there, and did not pass through the queue.
WrittenOnce(e) ==
    /\ ws # 0
    /\ sockets[ws].written # <<>>
    /\ LET w == sockets[ws].written
       IN  /\ w[Len(w)].ev = e /\ ~w[Len(w)].queued
           /\ Cardinality({k \in 1..Len(w) : w[k].ev = e}) = 1

AtQueueTail(e) == queue # <<>> /\ queue[Len(queue)].ev = e

\* C16: after publish(envelope) the envelope is either written once on the
\* open socket or at the tail of the outbound queue, whether or not it can be
\* serialized and whether or not the send throws.
C16_PublishNeverLoses ==
    last.op = "publish" => WrittenOnce(last.ev) \/ AtQueueTail(last.ev)

\* handleHandData has run for an event whose url is missing or gives no room.
EventWithoutRoom == last'.op = "event" /\ last'.room = Null /\ nextEvent' # nextEvent

\* C17: an event whose url is missing or yields no room leaves the publisher
\* as it was: its fields (current room, socket, queue, retryCount), the
\* sockets, the retry alarm, and the pending identity and token requests.
C17_NoRoomNoChange ==
    [][EventWithoutRoom =>
          UNCHANGED <<pubVars, sockets, alarm, getQ, fetches, publisherIds>>]_vars

\* Such an event arrived while a socket for a room was in place.
C17_Witness ==
    /\ last.op = "event" /\ last.room = Null
    /\ currentRoom # Null /\ ws # 0

\* connectPort has run, at load or from the timer, and returned true.
ConnectSucceeded == chLast'.op \in {"load", "timer"} /\ chLast'.ret

\* C18: a successful connectPort leaves reconnectAttempts at 0 and no timer
\* pending, and transmits a prefix of the queue in queue order, leaving the
\* rest queued; when no transmit fails the prefix is the whole queue.
C18_ConnectResetsAndFlushes ==
    [][ConnectSucceeded =>
          /\ reconnectAttempts' = 0
          /\ ~reconnectTimer'.set
          /\ \E n \in 0..Len(messageQueue) :
                 /\ delivered' = delivered \o SubSeq(messageQueue, 1, n)
                 /\ messageQueue' = SubSeq(messageQueue, n + 1, Len(messageQueue))
          /\ chBudget'.fails = chBudget.fails => messageQueue' = <<>>]_vars

\* The timer connected at the second attempt and flushed two messages.
C18_Witness ==
    /\ chLast.op = "timer" /\ chLast.ret
    /\ chLast.att >= 2 /\ chLast.timer.set
    /\ reconnectAttempts = 0 /\ ~reconnectTimer.set
    /\ Len(delivered) >= 2 /\ messageQueue = <<>>

InQueue(msg) == \E k \in 1..Len(messageQueue) : messageQueue[k] = msg

SentDirectly(msg) == delivered # <<>> /\ delivered[Len(delivered)] = msg

\* C19: sendPortMessage returns true exactly when the message was transmitted
\* directly and was not queued; when it returns false the message is at the
\* tail of the queue, there is no port, and a reconnect timer is pending
\* unless reconnectAttempts has reached MAX_RECONNECT_ATTEMPTS.
C19_SendResult ==
    chLast.op = "send" =>
        /\ chLast.ret <=> (SentDirectly(chLast.msg) /\ ~InQueue(chLast.msg))
        /\ ~chLast.ret =>
               /\ messageQueue # <<>>
               /\ messageQueue[Len(messageQueue)] = chLast.msg
               /\ port = 0
               /\ reconnectTimer.set \/ reconnectAttempts >= MAX_RECONNECT_ATTEMPTS

\* A send that returns false once the reconnect attempts are used up.
C19_Witness ==
    /\ chLast.op = "send" /\ ~chLast.ret
    /\ reconnectAttempts >= MAX_RECONNECT_ATTEMPTS /\ ~reconnectTimer.set
    /\ messageQueue[Len(messageQueue)] = chLast.msg

\* scheduleReconnect has run: from onDisconnect, or from a sendPortMessage
\* that queued its message.
ScheduleCalled ==
    chLast'.op = "disconnect" \/ (chLast'.op = "send" /\ ~chLast'.ret)

\* C20: scheduleReconnect changes neither reconnectAttempts nor the timer
\* when a timer is pending or reconnectAttempts >= MAX_RECONNECT_ATTEMPTS;
\* otherwise it adds one to reconnectAttempts and leaves the timer pending.
\* Once reconnectAttempts is at MAX_RECONNECT_ATTEMPTS and its timer has
\* fired, no timer is set and connectPort is not called again.
C20_ScheduleReconnect ==
    [][/\ ScheduleCalled =>
             IF reconnectTimer.set \/ reconnectAttempts >= MAX_RECONNECT_ATTEMPTS
             THEN /\ reconnectAttempts' = reconnectAttempts
                  /\ reconnectTimer' = reconnectTimer
             ELSE /\ reconnectAttempts' = reconnectAttempts + 1
                  /\ reconnectTimer'.set
       /\ reconnectAttempts >= MAX_RECONNECT_ATTEMPTS /\ ~reconnectTimer.set =>
             /\ ~reconnectTimer'.set
             /\ chLast'.op \notin {"load", "timer"}]_vars

\* scheduleReconnect was called with the attempts used up and no timer
\* pending, and left both as they were.
C20_Witness ==
    /\ chLast.op \in {"send", "disconnect"}
    /\ chLast.att = MAX_RECONNECT_ATTEMPTS /\ ~chLast.timer.set
    /\ reconnectAttempts = MAX_RECONNECT_ATTEMPTS /\ ~reconnectTimer.set
    /\ port = 0

\* connectPort has succeeded and a transmit of its flush has failed.
FlushFailed == ConnectSucceeded /\ chBudget'.fails # chBudget.fails

\* C21: when a transmit fails during a flush, the queue afterwards is the
\* failed message followed by the messages not yet attempted, in their
\* order; the messages before it were transmitted in their order; no message
\* is lost.
C21_FlushFailureKeepsOrder ==
    [][FlushFailed =>
          /\ messageQueue' # <<>>
          /\ \E n \in 0..(Len(messageQueue) - 1) :
                 /\ messageQueue' = SubSeq(messageQueue, n + 1, Len(messageQueue))
                 /\ delivered' = delivered \o SubSeq(messageQueue, 1, n)
          /\ delivered' \o messageQueue' = delivered \o messageQueue]_vars

\* A flush that transmitted one message and failed at the second of three.
C21_Witness ==
    /\ chLast.op = "timer" /\ chLast.ret
    /\ port # 0
    /\ Len(messageQueue) = 2 /\ delivered = <<messageQueue[1] - 1>>

\* The connection attempts in progress for room r: connects awaiting their
\* identity, token requests not yet answered, sockets not yet open.
AwaitingIdentity(r) ==
    Cardinality({k \in 1..Len(getQ) : getQ[k].kind = "connect" /\ getQ[k].room = r})

TokenFetches(r) ==
    LET fs == {f \in BagToSet(fetches) : f.room = r}
    IN  BagCardinality([f \in fs |-> CopiesIn(f, fetches)])

Handshakes(r) ==
    Cardinality({i \in 1..Len(sockets) :
                    sockets[i].room = r /\ sockets[i].readyState = "CONNECTING"})

\* C22: for every room at most one connection attempt is in progress: there
\* are never two token requests, or two socket handshakes, or two connects at
\* different stages, for the same room at the same time.
C22_OneAttemptPerRoom ==
    \A r \in Rooms : AwaitingIdentity(r) + TokenFetches(r) + Handshakes(r) <= 1

FailureOps == {"tokenError", "token401", "socketThrows", "close"}

\* The entry that a connect started now for room r puts among the pending
\* identity reads.
ConnectStarted(r) ==
    /\ isConnecting'
    /\ getQ' # <<>>
    /\ getQ'[Len(getQ')].kind = "connect" /\ getQ'[Len(getQ')].room = r

\* C23: a connection attempt that ends in failure (token error, 401, a
\* throwing constructor, socket close) while retryCount < MAX_RETRIES leaves
\* the retry alarm pending; and when the alarm fires with a room current,
\* connect runs for that room: it starts an attempt for it unless one is in
\* flight or a socket is in place.
C23_FailureSchedulesRetry ==
    [][/\ last'.op \in FailureOps /\ retryCount < MAX_RETRIES => alarm'.set
       /\ last'.op = "alarm" /\ currentRoom # Null =>
             /\ currentRoom' = currentRoom
             /\ ~alarm'.set
             /\ ~isConnecting /\ ~(ws # 0 /\ Live(sockets[ws])) =>
                    ConnectStarted(currentRoom)]_vars

\* The alarm of the second retry has fired and started a connect.
C23_Witness ==
    /\ last.op = "alarm" /\ last.alarm.set /\ last.room = currentRoom
    /\ retryCount >= 2
    /\ isConnecting /\ getQ # <<>>

\* handleHandData has run for a room other than the current one: its connect
\* has called disconnect().
RoomSwitched ==
    last'.op = "event" /\ last'.room # Null /\ last'.room # currentRoom

C25_NoOpAtBudget ==
    [][last'.op \in FailureOps /\ retryCount >= MAX_RETRIES =>
          retryCount' = retryCount /\ alarm' = alarm]_vars

IdentitiesOf(r) == {a.publisherId : a \in {x \in resolved' : x.room = r}}

\* C26: an entry of the persisted identity map, once there, is not changed
\* or removed by a resolution for another room, and the resolutions for its
\* own room replace it at most once (the one regeneration a race may cost).
C26_IdentityEntriesKept ==
    [][\A r \in Rooms :
          publisherIds[r] # 0 /\ publisherIds'[r] # publisherIds[r] =>
              last'.room = r /\ Cardinality(IdentitiesOf(r)) <= 2]_vars

\* C27: the onDisconnect listener of a port that has been replaced by a newer
\* one leaves the content script as it was: the newer port is still held,
\* reconnectAttempts is unchanged and no reconnect is scheduled.
C27_StaleDisconnectIgnored ==
    chLast.op = "disconnect" /\ chLast.port # 0 /\ chLast.port # chLast.msg =>
        /\ port = chLast.port
        /\ reconnectAttempts = chLast.att
        /\ reconnectTimer = chLast.timer

\* C28: messages are transmitted in the order of their sendPortMessage calls
\* (messages are numbered in that order): a message sent directly never
\* comes before an earlier one that was waiting in the queue.
C28_TransmitInSendOrder ==
    \A i, j \in 1..Len(delivered) : i < j => delivered[i] < delivered[j]

\* C29: every envelope written on a hub socket carries the publisherId that
\* was sent to the token service for the token that socket was opened with.
C29_EnvelopeIdentityIsSocketIdentity ==
    \A i \in 1..Len(sockets) :
        \A m \in Written(i) : m.publisherId = sockets[i].publisherId

====
